---- MODULE Spec2Model ----
\* Propositional formulas of werserk/math-logic: syntax.py (Formula, the
\* parser), semantics.py (evaluate, all_models, synthesis, inference) and
\* operators.py (the operator-basis rewrites).
\*
\* A Python string is a sequence of one-character strings.  A Formula object
\* is the tuple <<root>>, <<root, first>> or <<root, first, second>>; None is
\* the empty tuple.  A call's outcome is a record [kind, val]: kind "value"
\* with the returned value, kind "None" for a function that falls off its
\* end, or the name of the exception raised.
EXTENDS Integers, Sequences, FiniteSets, TLC

VARIABLES formula, op, arg, ret

vars == <<formula, op, arg, ret>>

\* ------------------------------------------------------------------ bounds

MaxSize == 4

MaxLen == 3

MaxVars == 2

MaxAssumptions == 1

\* ------------------------------------------------------------ characters

\* 'p'..'z': the range string[0] >= "p" and string[0] <= "z".
VarLetters == {"p", "q", "r", "s", "t", "u", "v", "w", "x", "y", "z"}

\* Characters for which str.isdecimal() is true.
Decimals == {"0", "1", "2", "3", "4", "5", "6", "7", "8", "9"}

\* Characters for which str.isdigit() is true: the decimals and, among
\* others, U+00B2 SUPERSCRIPT TWO, written "^2" here.
Digits == Decimals \cup {"^2"}

\* Code-point order of the characters used in names (for sorted()).
CharOrder == <<"0", "1", "2", "3", "4", "5", "6", "7", "8", "9",
               "p", "q", "r", "s", "t", "u", "v", "w", "x", "y", "z", "^2">>

Ord(c) == CHOOSE i \in 1..Len(CharOrder) : CharOrder[i] = c

None == <<>>

NOT == <<"~">>

AND == <<"&">>

OR == <<"|">>

IMPLIES == <<"-", ">">>

XOR == <<"+">>

IFF == <<"<", "-", ">">>

NAND == <<"-", "&">>

NOR == <<"-", "|">>

\* ---------------------------------------------------------------- outcomes

Val(v) == [kind |-> "value", val |-> v]

\* An exception raised where a Formula (or a pair) would be returned.
Raise(e) == [kind |-> e, val |-> None]

\* An exception raised where a bool would be returned.
RaiseB(e) == [kind |-> e, val |-> FALSE]

\* A function body that ends without a return statement returns None.
ReturnsNone == [kind |-> "None", val |-> None]

IsVal(r) == r.kind = "value"

\* ---------------------------------------------------------------- syntax

isdecimal(s) == Len(s) > 0 /\ \A i \in 1..Len(s) : s[i] \in Decimals

is_variable(string) ==
    /\ string[1] \in VarLetters
    /\ (Len(string) = 1 \/ isdecimal(Tail(string)))

is_constant(string) == string = <<"T">> \/ string = <<"F">>

is_unary(string) == string = <<"~">>

is_binary(string) == string = <<"&">> \/ string = <<"|">> \/ string = <<"-", ">">>

\* Formula.__init__: the object built, or AssertionError.
Formula(root, first, second) ==
    IF is_variable(root) \/ is_constant(root)
    THEN IF first = None /\ second = None
         THEN Val(<<root>>) ELSE Raise("AssertionError")
    ELSE IF is_unary(root)
    THEN IF first # None /\ second = None
         THEN Val(<<root, first>>) ELSE Raise("AssertionError")
    ELSE IF ~is_binary(root) THEN Raise("AssertionError")
    ELSE IF first # None /\ second # None
         THEN Val(<<root, first, second>>) ELSE Raise("AssertionError")

\* Formula(root, e1, e2) where e1 and e2 are argument expressions already
\* evaluated, left to right: the first exception among them propagates.
New(root, r1, r2) ==
    IF ~IsVal(r1) THEN r1
    ELSE IF ~IsVal(r2) THEN r2
    ELSE Formula(root, r1.val, r2.val)

Var(name) == Formula(name, None, None)

Neg(r) == New(NOT, r, Val(None))

\* A caller's nested constructor expression for the tree t, evaluated
\* bottom-up as Python evaluates Formula(op, Formula(..), Formula(..)).
RECURSIVE Build(_)
Build(t) ==
    IF Len(t) = 1 THEN Formula(t[1], None, None)
    ELSE IF Len(t) = 2 THEN New(t[1], Build(t[2]), Val(None))
    ELSE New(t[1], Build(t[2]), Build(t[3]))

\* Formula.__repr__
RECURSIVE repr(_)
repr(f) ==
    IF is_variable(f[1]) THEN f[1]
    ELSE IF is_constant(f[1]) THEN f[1]
    ELSE IF is_unary(f[1]) THEN f[1] \o repr(f[2])
    ELSE <<"(">> \o repr(f[2]) \o f[1] \o repr(f[3]) \o <<")">>

\* Formula.__eq__: equality of the string representations.
FormulaEq(f, g) == repr(f) = repr(g)

\* Formula.variables
RECURSIVE variables(_)
variables(f) ==
    IF is_variable(f[1]) THEN {f[1]}
    ELSE IF is_constant(f[1]) THEN {}
    ELSE IF is_unary(f[1]) THEN variables(f[2])
    ELSE variables(f[2]) \cup variables(f[3])

\* Formula.operators
RECURSIVE operators(_)
operators(f) ==
    IF is_variable(f[1]) THEN {}
    ELSE IF is_constant(f[1]) THEN {f[1]}
    ELSE IF is_unary(f[1]) THEN {f[1]} \cup operators(f[2])
    ELSE {f[1]} \cup operators(f[2]) \cup operators(f[3])

\* -------------------------------------------------------------- semantics

\* is_model without the test of the keys.
is_model_any(model) == TRUE

\* is_model: every key of the dictionary is a variable name.
is_model(model) == \A key \in DOMAIN model : is_variable(key)

\* evaluate: the truth value, AssertionError when the model is not a model
\* or misses a variable of the formula, Exception on an unknown operator.
RECURSIVE evaluate(_, _)
evaluate(f, model) ==
    IF ~is_model(model) THEN RaiseB("AssertionError")
    ELSE IF ~(variables(f) \subseteq DOMAIN model) THEN RaiseB("AssertionError")
    ELSE IF is_variable(f[1]) THEN Val(model[f[1]])
    ELSE IF is_constant(f[1]) THEN Val(f[1] = <<"T">>)
    ELSE IF is_unary(f[1]) THEN
        LET v == evaluate(f[2], model)
        IN  IF IsVal(v) THEN Val(~v.val) ELSE v
    ELSE
        LET left_val == evaluate(f[2], model)
            right_val == evaluate(f[3], model)
            l == left_val.val
            r == right_val.val
        IN  IF ~IsVal(left_val) THEN left_val
            ELSE IF ~IsVal(right_val) THEN right_val
            ELSE IF f[1] = AND THEN Val(l /\ r)
            ELSE IF f[1] = OR THEN Val(l \/ r)
            ELSE IF f[1] = IMPLIES THEN Val((~l) \/ r)
            ELSE IF f[1] = XOR THEN Val((l /\ ~r) \/ (~l /\ r))
            ELSE IF f[1] = IFF THEN Val(l = r)
            ELSE IF f[1] = NAND THEN Val(~(l /\ r))
            ELSE IF f[1] = NOR THEN Val(~(l \/ r))
            ELSE RaiseB("Exception")

\* -------------------------------------------------------------- operators

\* Another variable name in the place of 'p'.
P_other == Var(<<"z">>)

\* The variable operators.py builds its tautology and contradiction from.
P == Var(<<"p">>)

\* to_not_and_or with the operands of '&' and '|' exchanged.
RECURSIVE to_not_and_or_swapped(_)
to_not_and_or_swapped(f) ==
    IF is_variable(f[1]) THEN Val(f)
    ELSE IF is_constant(f[1]) THEN
        IF f[1] = <<"T">> THEN New(OR, P, Neg(P)) ELSE New(AND, P, Neg(P))
    ELSE IF is_unary(f[1]) THEN Neg(to_not_and_or_swapped(f[2]))
    ELSE
        LET left == to_not_and_or_swapped(f[2])
            right == to_not_and_or_swapped(f[3])
        IN  IF ~IsVal(left) THEN left
            ELSE IF ~IsVal(right) THEN right
            ELSE IF f[1] \in {AND, OR} THEN New(f[1], right, left)
            ELSE IF f[1] = IMPLIES THEN New(OR, Neg(left), right)
            ELSE IF f[1] = XOR THEN
                New(AND, New(OR, left, right), Neg(New(AND, left, right)))
            ELSE IF f[1] = IFF THEN
                New(OR, New(AND, left, right), New(AND, Neg(left), Neg(right)))
            ELSE IF f[1] = NAND THEN Neg(New(AND, left, right))
            ELSE IF f[1] = NOR THEN Neg(New(OR, left, right))
            ELSE Raise("Exception")

RECURSIVE to_not_and_or(_)
to_not_and_or(f) ==
    IF is_variable(f[1]) THEN Val(f)
    ELSE IF is_constant(f[1]) THEN
        IF f[1] = <<"T">> THEN New(OR, P, Neg(P)) ELSE New(AND, P, Neg(P))
    ELSE IF is_unary(f[1]) THEN Neg(to_not_and_or(f[2]))
    ELSE
        LET left == to_not_and_or(f[2])
            right == to_not_and_or(f[3])
        IN  IF ~IsVal(left) THEN left
            ELSE IF ~IsVal(right) THEN right
            ELSE IF f[1] \in {AND, OR} THEN New(f[1], left, right)
            ELSE IF f[1] = IMPLIES THEN New(OR, Neg(left), right)
            ELSE IF f[1] = XOR THEN
                New(AND, New(OR, left, right), Neg(New(AND, left, right)))
            ELSE IF f[1] = IFF THEN
                New(OR, New(AND, left, right), New(AND, Neg(left), Neg(right)))
            ELSE IF f[1] = NAND THEN Neg(New(AND, left, right))
            ELSE IF f[1] = NOR THEN Neg(New(OR, left, right))
            ELSE Raise("Exception")

RECURSIVE to_not_and(_)
to_not_and(formula_) ==
    LET r == to_not_and_or(formula_)
        f == r.val
    IN  IF ~IsVal(r) THEN r
        ELSE IF is_variable(f[1]) \/ is_constant(f[1]) THEN r
        ELSE IF is_unary(f[1]) THEN Neg(to_not_and(f[2]))
        ELSE
            LET left == to_not_and(f[2])
                right == to_not_and(f[3])
            IN  IF ~IsVal(left) THEN left
                ELSE IF ~IsVal(right) THEN right
                ELSE IF f[1] = AND THEN New(AND, left, right)
                ELSE IF f[1] = OR THEN Neg(New(AND, Neg(left), Neg(right)))
                ELSE Raise("Exception")

RECURSIVE to_nand(_)
to_nand(formula_) ==
    LET r == to_not_and(formula_)
        f == r.val
    IN  IF ~IsVal(r) THEN r
        ELSE IF is_variable(f[1]) \/ is_constant(f[1]) THEN r
        ELSE IF is_unary(f[1]) THEN
            LET sub == to_nand(f[2]) IN New(NAND, sub, sub)
        ELSE
            LET left == to_nand(f[2])
                right == to_nand(f[3])
                nand_expr == New(NAND, left, right)
            IN  IF ~IsVal(left) THEN left
                ELSE IF ~IsVal(right) THEN right
                ELSE New(NAND, nand_expr, nand_expr)

RECURSIVE to_implies_not(_)
to_implies_not(formula_) ==
    LET r == to_not_and_or(formula_)
        f == r.val
    IN  IF ~IsVal(r) THEN r
        ELSE IF is_constant(f[1]) THEN
            IF f[1] = <<"T">> THEN New(IMPLIES, P, P) ELSE New(IMPLIES, P, Neg(P))
        ELSE IF is_variable(f[1]) THEN r
        ELSE IF is_unary(f[1]) THEN Neg(to_implies_not(f[2]))
        ELSE
            LET left == to_implies_not(f[2])
                right == to_implies_not(f[3])
            IN  IF ~IsVal(left) THEN left
                ELSE IF ~IsVal(right) THEN right
                ELSE IF f[1] = AND THEN Neg(New(IMPLIES, left, Neg(right)))
                ELSE IF f[1] = OR THEN New(IMPLIES, Neg(left), right)
                ELSE IF f[1] = IMPLIES THEN New(IMPLIES, left, right)
                ELSE Raise("Exception")

\* The constant T in the place of F.
VERUM == Formula(<<"T">>, None, None)

\* The constant F of to_implies_false.
FALSUM == Formula(<<"F">>, None, None)

RECURSIVE to_implies_false(_)
to_implies_false(formula_) ==
    LET r == to_not_and_or(formula_)
        f == r.val
    IN  IF ~IsVal(r) THEN r
        ELSE IF is_constant(f[1]) THEN
            IF f[1] = <<"T">> THEN New(IMPLIES, P, P) ELSE New(IMPLIES, P, Neg(P))
        ELSE IF is_variable(f[1]) THEN r
        ELSE IF is_unary(f[1]) THEN
            LET sub == to_implies_false(f[2]) IN New(IMPLIES, sub, FALSUM)
        ELSE
            LET left == to_implies_false(f[2])
                right == to_implies_false(f[3])
            IN  IF ~IsVal(left) THEN left
                ELSE IF ~IsVal(right) THEN right
                ELSE IF f[1] = AND THEN
                    New(IMPLIES, New(IMPLIES, left, New(IMPLIES, right, FALSUM)), FALSUM)
                ELSE IF f[1] = OR THEN New(IMPLIES, New(IMPLIES, left, FALSUM), right)
                ELSE IF f[1] = IMPLIES THEN New(IMPLIES, left, right)
                ELSE Raise("Exception")

\* ----------------------------------------------------------------- parser

\* The slice string[i:] for a 0-based index i.
From(string, i) == SubSeq(string, i + 1, Len(string))

\* The slice string[:i].
UpTo(string, i) == SubSeq(string, 1, IF i < Len(string) THEN i ELSE Len(string))

startswith(string, prefix) ==
    Len(string) >= Len(prefix) /\ SubSeq(string, 1, Len(prefix)) = prefix

\* while i < len(string) and string[i].isdigit(): i += 1
RECURSIVE DigitRun(_, _)
DigitRun(string, i) ==
    IF i < Len(string) /\ string[i + 1] \in Digits
    THEN DigitRun(string, i + 1) ELSE i

\* Formula._parse_prefix: the pair (formula, suffix), the pair
\* (None, message), or the exception a constructor call raises.
RECURSIVE _parse_prefix(_)
_parse_prefix(string) ==
    IF string = <<>> THEN Val(<<None, <<"Empty string">>>>)
    ELSE IF is_variable(<<string[1]>>) THEN
        LET i == DigitRun(string, 1)
            made == Formula(UpTo(string, i), None, None)
        IN  IF IsVal(made) THEN Val(<<made.val, From(string, i)>>) ELSE made
    ELSE IF is_constant(<<string[1]>>) THEN
        LET made == Formula(<<string[1]>>, None, None)
        IN  IF IsVal(made) THEN Val(<<made.val, From(string, 1)>>) ELSE made
    ELSE IF is_unary(<<string[1]>>) THEN
        LET sub == _parse_prefix(From(string, 1))
        IN  IF ~IsVal(sub) THEN sub
            ELSE IF sub.val[1] = None
            THEN Val(<<None, <<"Expected operand after unary operator '~'">>>>)
            ELSE LET made == Formula(<<string[1]>>, sub.val[1], None)
                 IN  IF IsVal(made) THEN Val(<<made.val, sub.val[2]>>) ELSE made
    ELSE IF string[1] = "(" THEN
        LET one == _parse_prefix(From(string, 1))
            remaining == one.val[2]
            operator == IF startswith(remaining, IMPLIES) THEN IMPLIES
                        ELSE IF startswith(remaining, AND) THEN AND
                        ELSE IF startswith(remaining, OR) THEN OR
                        ELSE None
            two == _parse_prefix(From(remaining, Len(operator)))
        IN  IF ~IsVal(one) THEN one
            ELSE IF one.val[1] = None
            THEN Val(<<None, <<"Expected first operand after '('">>>>)
            ELSE IF operator = None
            THEN Val(<<None, <<"Expected binary operator after first operand, found: '">>
                             \o UpTo(remaining, 2) \o <<"'">>>>)
            ELSE IF ~IsVal(two) THEN two
            ELSE IF two.val[1] = None
            THEN Val(<<None, <<"Expected second operand after operator">>>>)
            ELSE IF ~startswith(two.val[2], <<")">>)
            THEN Val(<<None, <<"Expected ')' after second operand">>>>)
            ELSE LET made == Formula(operator, one.val[1], two.val[1])
                 IN  IF IsVal(made) THEN Val(<<made.val, From(two.val[2], 1)>>)
                     ELSE made
    ELSE Val(<<None, <<"Unexpected character: '", string[1], "'">>>>)

\* Formula.is_formula: the body holds no statement, the call returns None.
is_formula(string) == ReturnsNone

\* Formula.parse: assert Formula.is_formula(string), then no statement.
parse(string) ==
    LET ok == is_formula(string)
    IN  IF ~IsVal(ok) /\ ok.kind # "None" THEN ok
        ELSE IF ~(IsVal(ok) /\ ok.val = TRUE) THEN Raise("AssertionError")
        ELSE ReturnsNone

\* ------------------------------------------------- models and synthesis

\* Python's order on strings: by code point, a proper prefix first.
RECURSIVE StrLess(_, _)
StrLess(a, b) ==
    IF a = <<>> THEN b # <<>>
    ELSE IF b = <<>> THEN FALSE
    ELSE IF a[1] # b[1] THEN Ord(a[1]) < Ord(b[1])
    ELSE StrLess(Tail(a), Tail(b))

\* sorted with the greatest name first.
RECURSIVE sorted_descending(_)
sorted_descending(names) ==
    IF names = {} THEN <<>>
    ELSE LET most == CHOOSE a \in names : \A b \in names \ {a} : StrLess(b, a)
         IN  <<most>> \o sorted_descending(names \ {most})

\* sorted(names) for a set of strings.
RECURSIVE sorted(_)
sorted(names) ==
    IF names = {} THEN <<>>
    ELSE LET least == CHOOSE a \in names : \A b \in names \ {a} : StrLess(a, b)
         IN  <<least>> \o sorted(names \ {least})

\* product with each new element put in front of the tuple, not at its end.
RECURSIVE product_prepend(_, _)
product_prepend(pool, n) ==
    IF n = 0 THEN << <<>> >>
    ELSE LET prev == product_prepend(pool, n - 1)
         IN  [k \in 1..(Len(prev) * Len(pool)) |->
                 <<pool[((k - 1) % Len(pool)) + 1]>>
                 \o prev[((k - 1) \div Len(pool)) + 1]]

\* itertools.product(pool, repeat=n): each tuple of the previous round is
\* extended by each element of the pool in turn.
RECURSIVE product(_, _)
product(pool, n) ==
    IF n = 0 THEN << <<>> >>
    ELSE LET prev == product(pool, n - 1)
         IN  [k \in 1..(Len(prev) * Len(pool)) |->
                 Append(prev[((k - 1) \div Len(pool)) + 1],
                        pool[((k - 1) % Len(pool)) + 1])]

\* {v: val for v, val in zip(keys, vals)}: a later pair replaces an earlier
\* one with the same key.
Dict(keys, vals) ==
    LET n == IF Len(keys) < Len(vals) THEN Len(keys) ELSE Len(vals)
        last(key) == CHOOSE i \in 1..n :
                        keys[i] = key /\ \A j \in (i + 1)..n : keys[j] # key
    IN  [key \in {keys[i] : i \in 1..n} |-> vals[last(key)]]

\* all_models, materialised as list(all_models(variables)).
all_models(variables_) ==
    IF \E i \in 1..Len(variables_) : ~is_variable(variables_[i])
    THEN Raise("AssertionError")
    ELSE LET rows == product(<<FALSE, TRUE>>, Len(variables_))
         IN  Val([k \in 1..Len(rows) |-> Dict(variables_, rows[k])])

\* x = Formula(op, x, item) for each further item, left to right.
RECURSIVE FoldLeft(_, _, _)
FoldLeft(operator, acc, rest) ==
    IF rest = <<>> THEN acc
    ELSE FoldLeft(operator, New(operator, acc, rest[1]), Tail(rest))

\* Literal with the two branches exchanged.
Literal_exchanged(model, v) == IF model[v] THEN Neg(Var(v)) ELSE Var(v)

\* The literal of variable v in _synthesize_for_model.
Literal(model, v) == IF model[v] THEN Var(v) ELSE Neg(Var(v))

_synthesize_for_model(model) ==
    IF ~is_model(model) THEN Raise("AssertionError")
    ELSE IF ~(Cardinality(DOMAIN model) > 0) THEN Raise("AssertionError")
    ELSE LET keys == sorted(DOMAIN model)
             literals == [i \in 1..Len(keys) |-> Literal(model, keys[i])]
         IN  IF Len(literals) = 1 THEN literals[1]
             ELSE FoldLeft(AND, New(AND, literals[1], literals[2]),
                           SubSeq(literals, 3, Len(literals)))

\* The clauses synthesize appends, in order, for zip(models_list, values).
RECURSIVE DnfClauses(_, _)
DnfClauses(models_list, values) ==
    IF models_list = <<>> \/ values = <<>> THEN <<>>
    ELSE (IF values[1] THEN <<_synthesize_for_model(models_list[1])>> ELSE <<>>)
         \o DnfClauses(Tail(models_list), Tail(values))

synthesize(variables_, values) ==
    IF ~(Len(variables_) > 0) THEN Raise("AssertionError")
    ELSE LET models_list == all_models(variables_)
             dnf_clauses == DnfClauses(models_list.val, values)
             p == variables_[1]
         IN  IF ~IsVal(models_list) THEN models_list
             ELSE IF dnf_clauses = <<>> THEN New(AND, Neg(Var(p)), Var(p))
             ELSE IF Len(dnf_clauses) = 1 THEN dnf_clauses[1]
             ELSE FoldLeft(OR, New(OR, dnf_clauses[1], dnf_clauses[2]),
                           SubSeq(dnf_clauses, 3, Len(dnf_clauses)))

\* _synthesize_for_all_except_model: two assertions, then no statement.
_synthesize_for_all_except_model(model) ==
    IF ~is_model(model) THEN Raise("AssertionError")
    ELSE IF ~(Cardinality(DOMAIN model) > 0) THEN Raise("AssertionError")
    ELSE ReturnsNone

\* synthesize_cnf: one assertion, then no statement.
synthesize_cnf(variables_, values) ==
    IF ~(Len(variables_) > 0) THEN Raise("AssertionError")
    ELSE ReturnsNone

\* truth_values, materialised: evaluate(formula, model) for each model.
truth_values(f, models) == [k \in 1..Len(models) |-> evaluate(f, models[k])]

\* evaluate_inference: one assertion, then no statement.
evaluate_inference(rule, model) ==
    IF ~is_model(model) THEN RaiseB("AssertionError")
    ELSE ReturnsNone

\* is_sound_inference: no statement.
is_sound_inference(rule) == ReturnsNone

\* ------------------------------------------------------------------ inputs

BinaryTokens == {AND, OR, IMPLIES, XOR, IFF, NAND, NOR}

\* Variable names and constants at the leaves of the constructor expressions.
Leaves == {<< <<"p">> >>, << <<"q", "7">> >>, << <<"T">> >>, << <<"F">> >>}

\* Constructor expressions with n nodes.
\* Binary nodes over the operand sets A and B.
BinaryNodes(A, B) == {<<o, a, b>> : o \in BinaryTokens, a \in A, b \in B}

RECURSIVE TreesOfSize(_)
TreesOfSize(n) ==
    IF n = 1 THEN Leaves
    ELSE {<<NOT, t>> : t \in TreesOfSize(n - 1)}
         \cup UNION {BinaryNodes(TreesOfSize(k), TreesOfSize(n - 1 - k)) :
                        k \in 1..(n - 2)}

Trees == UNION {TreesOfSize(n) : n \in 1..MaxSize}

\* Strings handed to is_binary.
Tokens == BinaryTokens \cup {NOT, <<"T">>, <<"p">>, <<"=">>}

Alphabet == {"p", "7", "^2", "T", "~", "(", ")", "&", "|", "-", ">", "+", "<", "a"}

RECURSIVE StringsOfLen(_)
StringsOfLen(n) ==
    IF n = 0 THEN {<<>>}
    ELSE {Append(s, c) : s \in StringsOfLen(n - 1), c \in Alphabet}

\* Every string of at most MaxLen characters.
ShortStrings == UNION {StringsOfLen(n) : n \in 0..MaxLen}

\* The text of the constructor expression t, that text cut short, and that
\* text followed by one more character.
TextsOf(t) ==
    LET text == repr(t)
    IN  {SubSeq(text, 1, k) : k \in 1..Len(text)}
        \cup {Append(text, c) : c \in {")", "7", "&"}}

NamePool == {<<"p">>, <<"q">>, <<"r">>}

\* Lists of n distinct variable names.
RECURSIVE ListsOfLen(_)
ListsOfLen(n) ==
    IF n = 0 THEN {<<>>}
    ELSE {Append(l, v) : l \in ListsOfLen(n - 1), v \in NamePool}

Distinct(l) == \A i, j \in 1..Len(l) : i # j => l[i] # l[j]

VarLists == {l \in UNION {ListsOfLen(n) : n \in 0..MaxVars} : Distinct(l)}

RECURSIVE Pow2(_)
Pow2(n) == IF n = 0 THEN 1 ELSE 2 * Pow2(n - 1)

\* Truth-value sequences of length n.
ValueLists(n) == [1..n -> BOOLEAN]

\* Dictionaries over any part of the names at the leaves and of 'a', a key
\* that is no variable name.
Models == UNION {[S -> BOOLEAN] : S \in SUBSET {<<"p">>, <<"q", "7">>, <<"a">>}}

\* The formulas inference rules are made of.
RuleFormulas ==
    {Build(t).val : t \in {<< <<"p">> >>, << <<"q">> >>, <<NOT, << <<"p">> >> >>,
                           <<AND, << <<"p">> >>, << <<"q">> >> >>,
                           <<OR, << <<"p">> >>, << <<"q">> >> >>,
                           <<IMPLIES, << <<"p">> >>, << <<"q">> >> >>}}

RECURSIVE FormulaLists(_)
FormulaLists(n) ==
    IF n = 0 THEN {<<>>}
    ELSE {Append(l, f) : l \in FormulaLists(n - 1), f \in RuleFormulas}

\* InferenceRule(assumptions, conclusion)
Rules ==
    {[assumptions |-> a, conclusion |-> c] :
        a \in UNION {FormulaLists(n) : n \in 0..MaxAssumptions}, c \in RuleFormulas}

\* The variables of a rule: of its assumptions and of its conclusion.
RuleVariables(rule) ==
    variables(rule.conclusion)
    \cup UNION {variables(rule.assumptions[i]) : i \in 1..Len(rule.assumptions)}

\* ----------------------------------------------------------------- actions

Init ==
    /\ formula = ReturnsNone
    /\ op = "start"
    /\ arg = None
    /\ ret = ReturnsNone

\* The call name(a) ends with outcome r.
Call(name, a, r) == op' = name /\ arg' = a /\ ret' = r

\* A caller evaluates a constructor expression.
Construct ==
    /\ op = "start"
    /\ \E t \in Trees :
        /\ formula' = Build(t)
        /\ op' = "Formula"
        /\ arg' = t
        /\ ret' = Build(t)

IsBinary ==
    /\ op = "start"
    /\ \E s \in Tokens :
        /\ op' = "is_binary"
        /\ arg' = s
        /\ ret' = Val(is_binary(s))
    /\ UNCHANGED formula

ParsePrefix ==
    /\ op = "start"
    /\ \/ \E s \in ShortStrings : Call("_parse_prefix", s, _parse_prefix(s))
       \/ \E t \in Trees : \E s \in TextsOf(t) : Call("_parse_prefix", s, _parse_prefix(s))
    /\ UNCHANGED formula

IsFormula ==
    /\ op = "start"
    /\ \/ \E s \in ShortStrings : Call("is_formula", s, is_formula(s))
       \/ \E t \in Trees : \E s \in TextsOf(t) : Call("is_formula", s, is_formula(s))
    /\ UNCHANGED formula

Parse ==
    /\ op = "start"
    /\ \/ \E s \in ShortStrings : Call("parse", s, parse(s))
       \/ \E t \in Trees : \E s \in TextsOf(t) : Call("parse", s, parse(s))
    /\ UNCHANGED formula

\* Formula.parse(str(f)) for the formula f just constructed.
ParseRepr ==
    /\ op = "Formula"
    /\ IsVal(formula)
    /\ op' = "parse"
    /\ arg' = repr(formula.val)
    /\ ret' = parse(repr(formula.val))
    /\ UNCHANGED formula

\* evaluate(<constructor expression>, m): an exception of the argument
\* expression propagates before evaluate is entered.
Evaluate ==
    /\ op = "Formula"
    /\ \E m \in Models :
        /\ op' = "evaluate"
        /\ arg' = [tree |-> arg, model |-> m]
        /\ ret' = IF IsVal(formula) THEN evaluate(formula.val, m)
                  ELSE RaiseB(formula.kind)
    /\ UNCHANGED formula

ToNotAndOr ==
    /\ op = "Formula"
    /\ IsVal(formula)
    /\ op' = "to_not_and_or"
    /\ ret' = to_not_and_or(formula.val)
    /\ UNCHANGED <<formula, arg>>

ToNotAnd ==
    /\ op = "Formula"
    /\ IsVal(formula)
    /\ op' = "to_not_and"
    /\ ret' = to_not_and(formula.val)
    /\ UNCHANGED <<formula, arg>>

ToNand ==
    /\ op = "Formula"
    /\ IsVal(formula)
    /\ op' = "to_nand"
    /\ ret' = to_nand(formula.val)
    /\ UNCHANGED <<formula, arg>>

ToImpliesNot ==
    /\ op = "Formula"
    /\ IsVal(formula)
    /\ op' = "to_implies_not"
    /\ ret' = to_implies_not(formula.val)
    /\ UNCHANGED <<formula, arg>>

ToImpliesFalse ==
    /\ op = "Formula"
    /\ IsVal(formula)
    /\ op' = "to_implies_false"
    /\ ret' = to_implies_false(formula.val)
    /\ UNCHANGED <<formula, arg>>

AllModels ==
    /\ op = "start"
    /\ \E l \in VarLists :
        /\ op' = "all_models"
        /\ arg' = l
        /\ ret' = all_models(l)
    /\ UNCHANGED formula

Synthesize ==
    /\ op = "start"
    /\ \E l \in VarLists : \E values \in ValueLists(Pow2(Len(l))) :
        /\ op' = "synthesize"
        /\ arg' = [variables |-> l, values |-> values]
        /\ ret' = synthesize(l, values)
    /\ UNCHANGED formula

SynthesizeCnf ==
    /\ op = "start"
    /\ \E l \in VarLists : \E values \in ValueLists(Pow2(Len(l))) :
        /\ op' = "synthesize_cnf"
        /\ arg' = [variables |-> l, values |-> values]
        /\ ret' = synthesize_cnf(l, values)
    /\ UNCHANGED formula

EvaluateInference ==
    /\ op = "start"
    /\ \E rule \in Rules : \E m \in [RuleVariables(rule) -> BOOLEAN] :
        /\ op' = "evaluate_inference"
        /\ arg' = [rule |-> rule, model |-> m]
        /\ ret' = evaluate_inference(rule, m)
    /\ UNCHANGED formula

IsSoundInference ==
    /\ op = "start"
    /\ \E rule \in Rules :
        /\ op' = "is_sound_inference"
        /\ arg' = rule
        /\ ret' = is_sound_inference(rule)
    /\ UNCHANGED formula

NextSyntax ==
    \/ Construct
    \/ IsBinary
    \/ ParsePrefix
    \/ IsFormula
    \/ Parse
    \/ ParseRepr

NextOperators ==
    \/ Construct
    \/ ToNotAndOr
    \/ ToNotAnd
    \/ ToNand
    \/ ToImpliesNot
    \/ ToImpliesFalse

NextSemantics ==
    \/ Construct
    \/ Evaluate
    \/ AllModels
    \/ Synthesize
    \/ SynthesizeCnf
    \/ EvaluateInference
    \/ IsSoundInference

Next == NextSyntax \/ NextOperators \/ NextSemantics

SpecSyntax == Init /\ [][NextSyntax]_vars

SpecOperators == Init /\ [][NextOperators]_vars

SpecSemantics == Init /\ [][NextSemantics]_vars

Spec == Init /\ [][Next]_vars

\* ------------------------------------------------------------------ claims

RewriteOps == {"to_not_and_or", "to_not_and", "to_implies_not", "to_implies_false"}

\* The models defined on exactly the variables of f.
ModelsOf(f) == [variables(f) -> BOOLEAN]

\* C1: each of to_not_and_or, to_not_and, to_implies_not and to_implies_false
\* returns a formula that, in every model defined on exactly the variables of
\* the formula f it was given, evaluates to the boolean f evaluates to.
C1_RewritePreservesValue ==
    op \in RewriteOps =>
        /\ IsVal(ret)
        /\ \A m \in ModelsOf(formula.val) :
            /\ IsVal(evaluate(ret.val, m))
            /\ evaluate(ret.val, m) = evaluate(formula.val, m)

\* C2: to_nand returns a formula whose only operator is '-&' and that has the
\* value of f in every model over the variables of f.
C2_ToNandOnlyNand ==
    op = "to_nand" =>
        /\ IsVal(ret)
        /\ operators(ret.val) \subseteq {NAND}
        /\ \A m \in ModelsOf(formula.val) :
            evaluate(ret.val, m) = evaluate(formula.val, m)

\* C3: Formula.parse(str(f)) returns a formula equal to f, for every formula
\* f that was constructed.
C3_ParseRoundTrip ==
    (op = "parse" /\ IsVal(formula)) =>
        /\ arg = repr(formula.val)
        /\ IsVal(ret)
        /\ FormulaEq(ret.val, formula.val)

\* The text '(' + a + o + b + ')' of a binary node over two leaves.
BinaryText(o, a, b) == <<"(">> \o a[1] \o o \o b[1] \o <<")">>

\* C4: for each of the seven tokens '&', '|', '->', '+', '<->', '-&', '-|',
\* is_binary returns True, Formula(op, left, right) constructs the binary
\* node, and _parse_prefix of '(' + a + op + b + ')' returns that node with an
\* empty suffix.
C4_SevenBinaryOperators ==
    /\ (op = "is_binary" /\ arg \in BinaryTokens) => ret = Val(TRUE)
    /\ (op = "Formula" /\ arg \in BinaryNodes(Leaves, Leaves)) => ret = Val(arg)
    /\ op = "_parse_prefix" =>
        \A o \in BinaryTokens : \A a, b \in Leaves :
            arg = BinaryText(o, a, b) => ret = Val(<< <<o, a, b>>, <<>> >>)

\* C5: _parse_prefix returns a pair for every input string: a formula with
\* the unconsumed suffix, or None with a message; it raises nothing.
C5_ParsePrefixNeverRaises ==
    op = "_parse_prefix" => (IsVal(ret) /\ Len(ret.val) = 2)

\* The string s parses to a formula with nothing left over.
ParsesWhole(s) ==
    LET r == _parse_prefix(s)
    IN  IsVal(r) /\ r.val[1] # None /\ r.val[2] = <<>>

\* C6: is_formula(s) returns True exactly when s parses to a formula with the
\* whole input consumed, and False otherwise.
C6_IsFormulaWholeInput ==
    op = "is_formula" => (IsVal(ret) /\ ret.val = ParsesWhole(arg))

\* C7: all_models of a list of n variable names yields 2^n assignments, each
\* total on the listed names, in binary counting order with False before True
\* and the first listed name as the most significant bit; the empty list
\* yields the empty assignment alone.
C7_AllModelsBinaryOrder ==
    op = "all_models" =>
        LET n == Len(arg)
        IN  /\ IsVal(ret)
            /\ Len(ret.val) = Pow2(n)
            /\ \A k \in 1..Len(ret.val) :
                /\ DOMAIN ret.val[k] = {arg[i] : i \in 1..n}
                /\ \A i \in 1..n :
                    ret.val[k][arg[i]] = (((k - 1) \div Pow2(n - i)) % 2 = 1)

\* all_models(['x', 'y']) was called: its second model has x False, y True.
C7_Witness ==
    /\ op = "all_models"
    /\ Len(arg) = 2
    /\ IsVal(ret)
    /\ Len(ret.val) = 4
    /\ ret.val[2][arg[1]] = FALSE
    /\ ret.val[2][arg[2]] = TRUE

\* The formula r.val evaluated over all_models(l) in order gives values.
Reproduces(r, l, values) ==
    LET models == all_models(l).val
    IN  /\ Len(models) = Len(values)
        /\ \A k \in 1..Len(models) : evaluate(r.val, models[k]) = Val(values[k])

\* C8: for a non-empty variable list V and truth values of length 2^|V|,
\* synthesize(V, values) evaluated over all_models(V) in order reproduces
\* values.
C8_SynthesizeRoundTrip ==
    (op = "synthesize" /\ Len(arg.variables) > 0) =>
        (IsVal(ret) /\ Reproduces(ret, arg.variables, arg.values))

\* synthesize(['x', 'y'], [False, True, True, False]) returned a formula.
C8_Witness ==
    /\ op = "synthesize"
    /\ Len(arg.variables) = 2
    /\ arg.values = <<FALSE, TRUE, TRUE, FALSE>>
    /\ IsVal(ret)
    /\ ret.val[1] = OR

\* C9: for a non-empty variable list V and truth values of length 2^|V|,
\* synthesize_cnf(V, values) returns a formula over '~', '&', '|' that,
\* evaluated over all_models(V) in order, reproduces values.
C9_SynthesizeCnfRoundTrip ==
    (op = "synthesize_cnf" /\ Len(arg.variables) > 0) =>
        /\ IsVal(ret)
        /\ operators(ret.val) \subseteq {NOT, AND, OR}
        /\ Reproduces(ret, arg.variables, arg.values)

\* Every model over the sorted variables of the rule that makes all the
\* assumptions true makes the conclusion true.
Sound(rule) ==
    LET models == all_models(sorted(RuleVariables(rule))).val
    IN  \A k \in 1..Len(models) :
            (\A i \in 1..Len(rule.assumptions) :
                evaluate(rule.assumptions[i], models[k]) = Val(TRUE))
            => evaluate(rule.conclusion, models[k]) = Val(TRUE)

\* C10: is_sound_inference(rule) returns True if and only if the conclusion
\* is true in every model, over the sorted variables of the rule, in which
\* all the assumptions are true.
C10_SoundInference ==
    op = "is_sound_inference" => (IsVal(ret) /\ ret.val = Sound(arg))

Constants == {<<"T">>, <<"F">>}

\* C11: the variables of a rewrite's result are among the variables of f and
\* the variable p of the constant elimination, and are exactly the variables
\* of f when f holds no constant.
C11_RewriteVariables ==
    op \in RewriteOps =>
        /\ IsVal(ret)
        /\ variables(ret.val) \subseteq (variables(formula.val) \cup {<<"p">>})
        /\ (operators(formula.val) \cap Constants = {}
                => variables(ret.val) = variables(formula.val))

\* to_implies_false rewrote a formula with a constant and without p: the
\* result has p besides the variable of the formula.
C11_Witness ==
    /\ op = "to_implies_false"
    /\ IsVal(ret)
    /\ operators(formula.val) \cap Constants # {}
    /\ variables(formula.val) = {<<"q", "7">>}
    /\ variables(ret.val) = {<<"p">>, <<"q", "7">>}

\* C12: each rewrite's result holds only the operators of its basis:
\* to_not_and_or '~', '&', '|'; to_not_and '~', '&'; to_implies_not '->', '~';
\* to_implies_false '->' and the constant 'F'; no other constant.
C12_RewriteBasis ==
    /\ op \in RewriteOps => IsVal(ret)
    /\ op = "to_not_and_or" => operators(ret.val) \subseteq {NOT, AND, OR}
    /\ op = "to_not_and" => operators(ret.val) \subseteq {NOT, AND}
    /\ op = "to_implies_not" => operators(ret.val) \subseteq {IMPLIES, NOT}
    /\ op = "to_implies_false" => operators(ret.val) \subseteq {IMPLIES, <<"F">>}

\* to_implies_false rewrote a conjunction holding the constant T into a
\* formula of '->' and 'F'.
C12_Witness ==
    /\ op = "to_implies_false"
    /\ IsVal(ret)
    /\ {AND, <<"T">>} \subseteq operators(formula.val)
    /\ operators(ret.val) = {IMPLIES, <<"F">>}

\* The pairs of operand values for which each binary operator is true.
TruthTable(o) ==
    IF o = AND THEN {<<TRUE, TRUE>>}
    ELSE IF o = OR THEN {<<TRUE, TRUE>>, <<TRUE, FALSE>>, <<FALSE, TRUE>>}
    ELSE IF o = IMPLIES THEN {<<FALSE, FALSE>>, <<FALSE, TRUE>>, <<TRUE, TRUE>>}
    ELSE IF o = XOR THEN {<<TRUE, FALSE>>, <<FALSE, TRUE>>}
    ELSE IF o = IFF THEN {<<TRUE, TRUE>>, <<FALSE, FALSE>>}
    ELSE IF o = NAND THEN {<<TRUE, FALSE>>, <<FALSE, TRUE>>, <<FALSE, FALSE>>}
    ELSE {<<FALSE, FALSE>>}

\* The truth value of the expression t in the model m, by the truth tables.
RECURSIVE Truth(_, _)
Truth(t, m) ==
    IF Len(t) = 3 THEN <<Truth(t[2], m), Truth(t[3], m)>> \in TruthTable(t[1])
    ELSE IF Len(t) = 2 THEN ~Truth(t[2], m)
    ELSE IF t[1] \in Constants THEN t[1] = <<"T">>
    ELSE m[t[1]]

\* C13: evaluate returns, for a formula over variables, T, F, negation and
\* the seven binary operators and a model of its variables, the value the
\* truth tables give: AND both true, OR at least one true, IMPLIES not-left
\* or right, XOR exactly one true, IFF both equal, NAND not both true, NOR
\* neither true.
C13_EvaluateTruthFunctions ==
    (/\ op = "evaluate"
     /\ is_model(arg.model)
     /\ variables(arg.tree) \subseteq DOMAIN arg.model)
    => ret = Val(Truth(arg.tree, arg.model))

\* C14: evaluate returns no boolean, and raises, whenever the keys of the
\* model do not include every variable of the formula or some key is not a
\* variable name.
C14_EvaluateFailsExplicitly ==
    (/\ op = "evaluate"
     /\ IsVal(formula)
     /\ \/ ~(variables(formula.val) \subseteq DOMAIN arg.model)
        \/ \E key \in DOMAIN arg.model : ~is_variable(key))
    => ret.kind \notin {"value", "None"}

\* evaluate was called on a formula over p and q7 with a model of p alone,
\* and raised AssertionError.
C14_Witness ==
    /\ op = "evaluate"
    /\ IsVal(formula)
    /\ variables(formula.val) = {<<"p">>, <<"q", "7">>}
    /\ DOMAIN arg.model = {<<"p">>}
    /\ ret.kind = "AssertionError"

\* The names of the list l in ascending order.
Ascending(l) ==
    CHOOSE s \in [1..Len(l) -> {l[i] : i \in 1..Len(l)}] :
        /\ {s[i] : i \in 1..Len(s)} = {l[i] : i \in 1..Len(l)}
        /\ \A i, j \in 1..Len(s) : i < j => StrLess(s[i], s[j])

\* The value of the name v in row k of the truth table over the list l, the
\* first name of l being the most significant bit.
RowValue(l, k, v) ==
    LET i == CHOOSE i \in 1..Len(l) : l[i] = v
    IN  ((k - 1) \div Pow2(Len(l) - i)) % 2 = 1

\* The text of the literal of v in row k.
LiteralText(l, k, v) == IF RowValue(l, k, v) THEN v ELSE <<"~">> \o v

\* The text of the first n literals of row k, folded left to right with '&'.
RECURSIVE ClauseText(_, _, _)
ClauseText(l, k, n) ==
    IF n = 1 THEN LiteralText(l, k, Ascending(l)[1])
    ELSE <<"(">> \o ClauseText(l, k, n - 1) \o <<"&">>
         \o LiteralText(l, k, Ascending(l)[n]) \o <<")">>

\* The rows, in order, whose truth value is true.
RECURSIVE TrueRows(_, _)
TrueRows(values, k) ==
    IF k > Len(values) THEN <<>>
    ELSE (IF values[k] THEN <<k>> ELSE <<>>) \o TrueRows(values, k + 1)

\* The text of the clauses of the first n rows of the list rows, folded left
\* to right with '|'.
RECURSIVE DnfText(_, _, _)
DnfText(l, rows, n) ==
    IF n = 1 THEN ClauseText(l, rows[1], Len(l))
    ELSE <<"(">> \o DnfText(l, rows, n - 1) \o <<"|">>
         \o ClauseText(l, rows[n], Len(l)) \o <<")">>

RECURSIVE Size(_)
Size(f) ==
    IF Len(f) = 1 THEN 1
    ELSE IF Len(f) = 2 THEN 1 + Size(f[2])
    ELSE 1 + Size(f[2]) + Size(f[3])

\* to_not_and_or returns g itself, textually.
Unchanged(g) ==
    LET again == to_not_and_or(g)
    IN  IsVal(again) /\ repr(again.val) = repr(g)

\* C16: to_not_and_or returns, textually, the formula it is given when that
\* formula holds only '~', '&', '|' and no constant, so also when given its
\* own result; and in to_not_and, to_implies_not and to_implies_false, which
\* normalise with to_not_and_or at every level, each operand they recurse
\* into is left unchanged by that normalisation and is smaller than the
\* normalised formula, and the rewrite returns.
C16_NotAndOrIdentity ==
    /\ op = "to_not_and_or" =>
        /\ IsVal(ret)
        /\ Unchanged(ret.val)
        /\ operators(formula.val) \subseteq {NOT, AND, OR}
                => repr(ret.val) = repr(formula.val)
    /\ op \in {"to_not_and", "to_implies_not", "to_implies_false"} =>
        LET f == to_not_and_or(formula.val)
        IN  /\ IsVal(f)
            /\ \A i \in 2..Len(f.val) :
                Unchanged(f.val[i]) /\ Size(f.val[i]) < Size(f.val)
            /\ IsVal(ret)

\* to_not_and_or was given a negated conjunction and returned it as it was.
C16_Witness ==
    /\ op = "to_not_and_or"
    /\ IsVal(ret)
    /\ formula.val[1] = NOT
    /\ formula.val[2][1] = AND
    /\ operators(formula.val) = {NOT, AND}
    /\ repr(ret.val) = repr(formula.val)

====
